---- MODULE Spec2Model ----
(***************************************************************************)
(* Model of the worker-pool supervisor of components/net/src/supervisor.rs *)
(* (Supervisor<T: Dispatcher>): the caller's thread running start/init,    *)
(* the detached monitor thread launched by run, the worker threads         *)
(* launched by spawn_worker, and the liveness channels between them.       *)
(*                                                                         *)
(* Vec indices of the source are 0-based; sequences here are 1-based, so   *)
(* the source's workers[i] is workers[i + 1] below.                        *)
(***************************************************************************)
EXTENDS Integers, Sequences, FiniteSets, TLC

\* Largest worker_count passed to start.
MaxWorkers == 3
\* Total number of worker threads spawn_worker may launch in one behaviour.
MaxSpawns == 5
\* Values written to the shared configuration are 0..MaxCfg.
MaxCfg == 1
\* Longest VERSION string, in characters.
MaxVersionLen == 3
\* Longest stderr of `docker pull`, in words.
MaxStderrLen == 3

\* mpsc::sync_channel(1): capacity of a liveness channel.
ChannelCapacity == 1

VARIABLES
    worker_count,  \* argument of start
    cfgHeap,       \* the configuration objects behind Arc<RwLock<T::Config>>, by address
    appCfg,        \* the Arc the application built the supervisor from
    config,        \* Supervisor.config (an address in cfgHeap)
    workers,       \* Supervisor.workers: Vec<mpsc::Receiver<()>>, each receiver
                   \* named by the worker instance holding its sender
    inst,          \* every worker thread launched so far, in launch order
    callerPc,      \* position of the thread that called start
    worker_id,     \* loop variable of init
    monPc,         \* position of the monitor thread of run
    monI,          \* loop variable i of the monitor's sweep
    rx,            \* receiver local to the spawn_worker call in progress (0: none)
    log,           \* last line written to the log
    studio         \* the run of `hab studio` (command/studio.rs, not linux)

vars == <<worker_count, cfgHeap, appCfg, config, workers, inst, callerPc,
          worker_id, monPc, monI, rx, log, studio>>

WorkerStates == {"starting", "ready", "failed", "exited"}

\* A worker has terminated: its thread ended and its Sender was dropped.
Terminated(w) == inst[w].st \in {"failed", "exited"}

----------------------------------------------------------------------------
(* Vec and channel primitives *)

VecPushFront(v, x) == <<x>> \o v
\* Vec::push
VecPush(v, x) == Append(v, x)

VecRemoveAnyIndex(v, index) == TRUE
\* Vec::remove panics unless index < len
VecRemoveInRange(v, index) == index < Len(v)

\* Vec::remove: drops the element at index and shifts the later ones left.
VecRemove(v, index) ==
    [j \in 1..(Len(v) - 1) |-> IF j < index + 1 THEN v[j] ELSE v[j + 1]]

\* Indexing workers[i] panics unless i < len
VecIndexInRange(v, index) == index < Len(v)

TryRecvArmsSwapped(w) ==
    IF inst[w].buf > 0 THEN "Disconnected"
    ELSE IF Terminated(w) THEN "Ok"
    ELSE "Empty"
\* Receiver::try_recv on the channel of instance w: a buffered message is
\* delivered even when the sender is gone.
TryRecv(w) ==
    IF inst[w].buf > 0 THEN "Ok"
    ELSE IF Terminated(w) THEN "Disconnected"
    ELSE "Empty"

\* Receiver::recv blocks while the channel is empty and connected.
RecvReturns(w) == inst[w].buf > 0 \/ Terminated(w)
\* rx.recv().is_ok()
RecvIsOk(w) == inst[w].buf > 0

CloneConfigDeep(heap, h) ==
    [heap |-> Append(heap, heap[h]), handle |-> Len(heap) + 1]
\* self.config.clone(): Arc::clone yields a handle to the same object.
CloneConfig(heap, h) == [heap |-> heap, handle |-> h]

\* T::new(cfg) and thread::spawn: the new worker thread with its Sender.
NewWorker(id, by, cfg) ==
    [id |-> id, by |-> by, st |-> "starting", buf |-> 0, cfg |-> cfg]

\* No `hab studio` command is running.
StudioNotRun == [pc |-> "none"]

----------------------------------------------------------------------------
Init ==
    /\ worker_count \in 0..MaxWorkers
    /\ cfgHeap = <<0>>
    /\ appCfg = 1
    /\ config = appCfg
    /\ workers = <<>>
    /\ inst = <<>>
    /\ callerPc = "init"
    /\ worker_id = 0
    /\ monPc = "none"
    /\ monI = 0
    /\ rx = 0
    /\ log = "none"
    /\ studio = StudioNotRun

\* spawn_worker up to the blocking rx.recv()
SpawnWorkerLaunch(id, by) ==
    LET c == CloneConfig(cfgHeap, config) IN
    /\ Len(inst) < MaxSpawns
    /\ cfgHeap' = c.heap
    /\ inst' = Append(inst, NewWorker(id, by, c.handle))
    /\ rx' = Len(inst) + 1

\* init as it would be if spawn_worker did not wait for the readiness signal
InitSpawnNoWait ==
    /\ callerPc = "init"
    /\ worker_id < worker_count
    /\ SpawnWorkerLaunch(worker_id, "init")
    /\ worker_id' = worker_id + 1
    /\ UNCHANGED <<studio, worker_count, appCfg, config, workers, callerPc, monPc, monI, log>>

\* init: the loop calls spawn_worker(worker_id)
InitSpawn ==
    /\ callerPc = "init"
    /\ worker_id < worker_count
    /\ SpawnWorkerLaunch(worker_id, "init")
    /\ callerPc' = "recv"
    /\ UNCHANGED <<studio, worker_count, appCfg, config, workers, worker_id, monPc, monI, log>>

\* init: rx.recv() returns in spawn_worker, the loop moves on
InitRecv ==
    /\ callerPc = "recv"
    /\ RecvReturns(rx)
    /\ IF RecvIsOk(rx)
       THEN /\ inst' = [inst EXCEPT ![rx].buf = @ - 1]
            /\ workers' = VecPush(workers, rx)
            /\ log' = "ready"
            /\ worker_id' = worker_id + 1
            /\ callerPc' = "init"
       ELSE /\ inst' = inst
            /\ log' = "failed"
            /\ IF VecRemoveInRange(workers, worker_id)
               THEN /\ workers' = VecRemove(workers, worker_id)
                    /\ worker_id' = worker_id + 1
                    /\ callerPc' = "init"
               ELSE /\ workers' = workers
                    /\ worker_id' = worker_id
                    /\ callerPc' = "panicked"
    /\ rx' = 0
    /\ UNCHANGED <<studio, worker_count, cfgHeap, appCfg, config, monPc, monI>>

\* start as it would be if run waited for the monitor thread it launched
StartRunJoined ==
    /\ callerPc = "init"
    /\ worker_id = worker_count
    /\ callerPc' = "joining"
    /\ monPc' = "check"
    /\ monI' = 0
    /\ log' = "supervisor_ready"
    /\ UNCHANGED <<studio, worker_count, cfgHeap, appCfg, config, workers, inst, worker_id, rx>>

\* start as it would be if the monitor thread were launched before init ran
StartRunBeforeInit ==
    /\ callerPc = "init"
    /\ monPc = "none"
    /\ monPc' = "check"
    /\ monI' = 0
    /\ UNCHANGED <<studio, worker_count, cfgHeap, appCfg, config, workers, inst, callerPc,
                   worker_id, rx, log>>

\* start: init returned Ok, run launches the monitor thread and returns Ok
StartRun ==
    /\ callerPc = "init"
    /\ worker_id = worker_count
    /\ callerPc' = "returned_ok"
    /\ monPc' = "check"
    /\ monI' = 0
    /\ log' = "supervisor_ready"
    /\ UNCHANGED <<studio, worker_count, cfgHeap, appCfg, config, workers, inst, worker_id, rx>>

\* run: one iteration of `for i in 0..worker_count`
MonitorCheck ==
    /\ monPc = "check"
    /\ monI < worker_count
    /\ IF ~VecIndexInRange(workers, monI)
       THEN /\ monPc' = "panicked"
            /\ UNCHANGED <<cfgHeap, inst, monI, rx, log>>
       ELSE LET w == workers[monI + 1] IN
            CASE TryRecv(w) = "Disconnected" ->
                    /\ SpawnWorkerLaunch(monI, "monitor")
                    /\ monPc' = "recv"
                    /\ log' = "restarting"
                    /\ UNCHANGED monI
              [] TryRecv(w) = "Ok" ->
                    /\ inst' = [inst EXCEPT ![w].buf = @ - 1]
                    /\ log' = "unexpected"
                    /\ monI' = monI + 1
                    /\ UNCHANGED <<cfgHeap, monPc, rx>>
              [] TryRecv(w) = "Empty" ->
                    /\ monI' = monI + 1
                    /\ UNCHANGED <<cfgHeap, inst, monPc, rx, log>>
    /\ UNCHANGED <<studio, worker_count, appCfg, config, workers, callerPc, worker_id>>

\* run: rx.recv() returns in the spawn_worker called by the monitor; the
\* Ok(()) it returns is unwrapped and the sweep moves on
MonitorRecv ==
    /\ monPc = "recv"
    /\ RecvReturns(rx)
    /\ IF RecvIsOk(rx)
       THEN /\ inst' = [inst EXCEPT ![rx].buf = @ - 1]
            /\ workers' = VecPush(workers, rx)
            /\ log' = "ready"
            /\ monI' = monI + 1
            /\ monPc' = "check"
       ELSE /\ inst' = inst
            /\ log' = "failed"
            /\ IF VecRemoveInRange(workers, monI)
               THEN /\ workers' = VecRemove(workers, monI)
                    /\ monI' = monI + 1
                    /\ monPc' = "check"
               ELSE /\ workers' = workers
                    /\ monI' = monI
                    /\ monPc' = "panicked"
    /\ rx' = 0
    /\ UNCHANGED <<studio, worker_count, cfgHeap, appCfg, config, callerPc, worker_id>>

\* run: the sweep is over, thread::sleep
MonitorSleep ==
    /\ monPc = "check"
    /\ monI = worker_count
    /\ monPc' = "sleep"
    /\ UNCHANGED <<studio, worker_count, cfgHeap, appCfg, config, workers, inst, callerPc,
                   worker_id, monI, rx, log>>

\* run: the sleep is over, the next sweep begins
MonitorWake ==
    /\ monPc = "sleep"
    /\ monPc' = "check"
    /\ monI' = 0
    /\ UNCHANGED <<studio, worker_count, cfgHeap, appCfg, config, workers, inst, callerPc,
                   worker_id, rx, log>>

\* worker thread: init succeeded and start sends the readiness signal
WorkerReady(w) ==
    /\ inst[w].st = "starting"
    /\ inst[w].buf < ChannelCapacity
    /\ inst' = [inst EXCEPT ![w].st = "ready", ![w].buf = @ + 1]
    /\ UNCHANGED <<studio, worker_count, cfgHeap, appCfg, config, workers, callerPc,
                   worker_id, monPc, monI, rx, log>>

\* worker thread: init fails, start returns or the thread panics before the
\* readiness signal; the Sender is dropped
WorkerFail(w) ==
    /\ inst[w].st = "starting"
    /\ inst' = [inst EXCEPT ![w].st = "failed"]
    /\ UNCHANGED <<studio, worker_count, cfgHeap, appCfg, config, workers, callerPc,
                   worker_id, monPc, monI, rx, log>>

\* worker thread: start returns or panics after the readiness signal
WorkerExit(w) ==
    /\ inst[w].st = "ready"
    /\ inst' = [inst EXCEPT ![w].st = "exited"]
    /\ UNCHANGED <<studio, worker_count, cfgHeap, appCfg, config, workers, callerPc,
                   worker_id, monPc, monI, rx, log>>

\* worker thread: a further message on the liveness channel after readiness
WorkerSend(w) ==
    /\ inst[w].st = "ready"
    /\ inst[w].buf < ChannelCapacity
    /\ inst' = [inst EXCEPT ![w].buf = @ + 1]
    /\ UNCHANGED <<studio, worker_count, cfgHeap, appCfg, config, workers, callerPc,
                   worker_id, monPc, monI, rx, log>>

\* the application writes the shared configuration through its own Arc
ConfigWrite(v) ==
    /\ cfgHeap[appCfg] # v
    /\ cfgHeap' = [cfgHeap EXCEPT ![appCfg] = v]
    /\ UNCHANGED <<studio, worker_count, appCfg, config, workers, inst, callerPc,
                   worker_id, monPc, monI, rx, log>>

WorkerStart == \E w \in DOMAIN inst : WorkerReady(w) \/ WorkerFail(w)
Caller == InitSpawn \/ InitRecv \/ StartRun
Monitor == MonitorCheck \/ MonitorRecv \/ MonitorSleep \/ MonitorWake

Next ==
    \/ InitSpawn
    \/ InitRecv
    \/ StartRun
    \/ MonitorCheck
    \/ MonitorRecv
    \/ MonitorSleep
    \/ MonitorWake
    \/ \E w \in DOMAIN inst : WorkerReady(w)
    \/ \E w \in DOMAIN inst : WorkerFail(w)
    \/ \E w \in DOMAIN inst : WorkerExit(w)
    \/ \E w \in DOMAIN inst : WorkerSend(w)
    \/ \E v \in 0..MaxCfg : ConfigWrite(v)

Spec == Init /\ [][Next]_vars

\* The caller's thread and the starting workers are scheduled fairly; nothing
\* is assumed of the monitor thread.
LiveSpec == Spec /\ WF_vars(Caller) /\ WF_vars(WorkerStart)

\* As LiveSpec, and the monitor thread is scheduled fairly too.
FairSpec == LiveSpec /\ WF_vars(Monitor)

TypeOK ==
    /\ worker_count \in 0..MaxWorkers
    /\ Len(inst) <= MaxSpawns
    /\ \A w \in DOMAIN inst :
          /\ inst[w].st \in WorkerStates
          /\ inst[w].buf \in 0..ChannelCapacity
          /\ inst[w].id \in 0..(worker_count - 1)
    /\ \A j \in DOMAIN workers : workers[j] \in DOMAIN inst
    /\ rx \in 0..Len(inst)
    /\ callerPc \in {"init", "recv", "returned_ok", "panicked"}
    /\ monPc \in {"none", "check", "recv", "sleep", "panicked"}

----------------------------------------------------------------------------
(* Properties *)

\* The step in which start returns Ok to its caller.
StartReturnsOk == callerPc # "returned_ok" /\ callerPc' = "returned_ok"

\* Some worker launched by init terminated before its readiness signal.
InitWorkerFailed == \E w \in DOMAIN inst : inst[w].by = "init" /\ inst[w].st = "failed"

\* C1: when start returns Ok, workers holds exactly worker_count slots, slot i
\* is the channel of the one worker launched for id i, every launched worker
\* has sent its readiness signal, and exactly worker_count were launched.
C1_StartOkHasAllSlots ==
    [][StartReturnsOk =>
          /\ Len(workers') = worker_count
          /\ Len(inst') = worker_count
          /\ \A w \in DOMAIN inst' : inst'[w].st \in {"ready", "exited"}
          /\ \A i \in 0..(worker_count - 1) :
                /\ inst'[workers'[i + 1]].id = i
                /\ inst'[workers'[i + 1]].by = "init"
                /\ \A w \in DOMAIN inst' : inst'[w].id = i => w = workers'[i + 1]
      ]_vars

C1_Witness ==
    /\ callerPc = "returned_ok"
    /\ log = "supervisor_ready"
    /\ worker_count = MaxWorkers
    /\ Len(workers) = worker_count
    /\ \A i \in 0..(worker_count - 1) : inst[workers[i + 1]].id = i

\* C2 (as claimed): once a worker launched by init has terminated before its
\* readiness signal and spawn_worker has seen it, start has returned an error.
C2_InitFailureReturnsErr ==
    \A w \in DOMAIN inst :
        (inst[w].by = "init" /\ inst[w].st = "failed" /\ rx # w)
            => callerPc = "returned_err"

\* C3: once the worker of id k launched by init has terminated before its
\* readiness signal, no worker of a greater id exists and the monitor thread
\* has not been launched.
C3_AbortLeftToRight ==
    \A w \in DOMAIN inst :
        (inst[w].by = "init" /\ inst[w].st = "failed")
            => /\ monPc = "none"
               /\ callerPc \in {"recv", "panicked"}
               /\ \A v \in DOMAIN inst : v <= w /\ inst[v].id <= inst[w].id

C3_Witness ==
    /\ callerPc = "panicked"
    /\ \E w \in DOMAIN inst :
          /\ inst[w].by = "init"
          /\ inst[w].st = "failed"
          /\ inst[w].id >= 1
          /\ inst[w].id + 1 < worker_count

\* C4 (as claimed): after start succeeded, whenever a worker whose channel is
\* in workers has terminated, the fairly scheduled monitor eventually launches
\* a new worker for the same id (unless the model's launch budget is spent).
C4_TerminationLeadsToRespawn ==
    \A k \in 1..MaxSpawns :
      \A i \in 0..(MaxWorkers - 1) :
        (/\ callerPc = "returned_ok"
         /\ k \in DOMAIN inst
         /\ inst[k].id = i
         /\ inst[k].st = "exited"
         /\ \E j \in DOMAIN workers : workers[j] = k)
        ~> (\/ \E v \in DOMAIN inst : v > k /\ inst[v].id = i
            \/ Len(inst) = MaxSpawns)

\* No respawn made by the monitor has failed so far.
NoRespawnFailed == \A w \in DOMAIN inst : ~(inst[w].by = "monitor" /\ inst[w].st = "failed")

\* C5 (as claimed): at the start of every sweep, with only successful
\* respawns behind it, workers has exactly worker_count slots.
C5_SlotCountStaysN ==
    (monPc = "check" /\ monI = 0 /\ NoRespawnFailed) => Len(workers) = worker_count

\* C6 (as claimed): when spawn_worker(i) succeeds in the monitor loop, slot i
\* of workers is the receiver of the newly launched worker.
C6_RespawnReplacesInPlace ==
    [][(monPc = "recv" /\ monPc' = "check" /\ RecvIsOk(rx))
          => (VecIndexInRange(workers', monI) /\ workers'[monI + 1] = rx)]_vars

\* C7 (as claimed): once a respawn made by the monitor has failed and
\* spawn_worker has seen it, the monitor loop has stopped.
C7_RespawnFailureIsFatal ==
    \A w \in DOMAIN inst :
        (inst[w].by = "monitor" /\ inst[w].st = "failed" /\ rx # w)
            => monPc = "panicked"

\* C8: a message found on a liveness channel by the monitor is only logged:
\* workers and the set of launched workers stay as they are and the sweep
\* goes on; the monitor launches a worker only for a slot whose worker has
\* terminated; start fails only when the worker it waits for has terminated
\* before its readiness signal.
C8_ExtraMessageOnlyLogged ==
    [][/\ (/\ monPc = "check"
           /\ VecIndexInRange(workers, monI)
           /\ monI < worker_count
           /\ inst[workers[monI + 1]].buf > 0
           /\ <<monPc, monI, log>> # <<monPc', monI', log'>>)
          => /\ workers' = workers
             /\ Len(inst') = Len(inst)
             /\ monPc' = "check"
             /\ monI' = monI + 1
             /\ log' = "unexpected"
       /\ (monPc = "check" /\ Len(inst') > Len(inst))
          => /\ Terminated(workers[monI + 1])
             /\ inst[workers[monI + 1]].buf = 0
       /\ (callerPc = "recv" /\ callerPc' = "panicked")
          => inst[rx].st = "failed"
      ]_vars

C8_Witness ==
    /\ log = "unexpected"
    /\ worker_count >= 1
    /\ Len(inst) = worker_count
    /\ Len(workers) = worker_count
    /\ \A w \in DOMAIN inst : inst[w].st = "ready"

\* C9: with the caller's thread and the starting workers scheduled fairly,
\* and whatever the monitor thread does, start eventually returns Ok unless
\* a worker terminates before its readiness signal.
C9_StartEventuallyReturns ==
    <>(callerPc = "returned_ok" \/ InitWorkerFailed)

C9_Witness ==
    /\ callerPc = "returned_ok"
    /\ worker_count = MaxWorkers
    /\ monPc = "check"
    /\ monI = 0
    /\ \A w \in DOMAIN inst : inst[w].st = "ready" /\ inst[w].by = "init"

\* C10: every worker, launched by init or by a respawn, holds a handle to the
\* configuration object the supervisor and the application hold, so it reads
\* what the application last wrote.
C10_WorkersShareConfig ==
    \A w \in DOMAIN inst :
        /\ inst[w].cfg = config
        /\ inst[w].cfg = appCfg
        /\ cfgHeap[inst[w].cfg] = cfgHeap[appCfg]

C10_Witness ==
    /\ cfgHeap[appCfg] # 0
    /\ \E w \in DOMAIN inst : inst[w].by = "init" /\ inst[w].st = "ready"
    /\ \E w \in DOMAIN inst : inst[w].by = "monitor" /\ inst[w].st = "ready"

\* C11: during bring-up the workers are launched one at a time in increasing
\* id order: the k-th launched worker has id k - 1, and every worker but the
\* last launched has sent its readiness signal or terminated.
C11_SequentialBringUp ==
    monPc = "none" =>
        /\ Cardinality({w \in DOMAIN inst : inst[w].st = "starting"}) <= 1
        /\ \A w \in DOMAIN inst :
              /\ inst[w].id = w - 1
              /\ inst[w].by = "init"
              /\ w < Len(inst) => inst[w].st # "starting"

C11_Witness ==
    /\ monPc = "none"
    /\ callerPc = "recv"
    /\ Len(inst) >= 2
    /\ inst[Len(inst)].st = "starting"

\* C12 (as claimed): the monitor thread is never waiting for a worker: whenever
\* it is inside spawn_worker, the receive it performs can return at once.
C12_MonitorNeverBlocks ==
    monPc = "recv" => RecvReturns(rx)

\* C13 (as claimed): a spawn_worker call whose worker terminated before its
\* readiness signal leaves workers as it was.
C13_FailedSpawnKeepsSlots ==
    [][(/\ rx # 0
        /\ rx' = 0
        /\ inst[rx].st = "failed"
        /\ ~RecvIsOk(rx))
          => workers' = workers]_vars

\* C14: workers is touched by one thread at a time: the monitor thread exists
\* only once the caller's thread has returned from start, and workers changes
\* only in spawn_worker run by the caller before the monitor is launched or by
\* the monitor afterwards, never in a step of a worker thread.
C14_SlotsSingleThreaded ==
    [][/\ monPc' # "none" => callerPc' = "returned_ok"
       /\ workers' # workers
            => \/ callerPc = "recv" /\ monPc = "none" /\ callerPc' # "recv"
               \/ callerPc = "returned_ok" /\ monPc = "recv" /\ monPc' # "recv"
      ]_vars

C14_Witness ==
    /\ callerPc = "returned_ok"
    /\ monPc = "check"
    /\ \E j \in DOMAIN workers : inst[workers[j]].by = "init"
    /\ \E j \in DOMAIN workers : inst[workers[j]].by = "monitor"

\* Worker w's thread is running.
Live(w) == inst[w].st \in {"starting", "ready"}

\* C15 (as claimed): at most one live worker exists per worker id, so at most
\* worker_count workers are live.
C15_OneLiveWorkerPerId ==
    /\ \A i \in 0..(worker_count - 1) :
          Cardinality({w \in DOMAIN inst : inst[w].id = i /\ Live(w)}) <= 1
    /\ Cardinality({w \in DOMAIN inst : Live(w)}) <= worker_count

\* C16 (as claimed): every index used on workers is in range: workers[i] in
\* a sweep, and the index removed by spawn_worker on a failed spawn.
C16_IndexInRange ==
    /\ (monPc = "check" /\ monI < worker_count) => VecIndexInRange(workers, monI)
    /\ (callerPc = "recv" /\ inst[rx].st = "failed" /\ ~RecvIsOk(rx))
          => VecRemoveInRange(workers, worker_id)
    /\ (monPc = "recv" /\ inst[rx].st = "failed" /\ ~RecvIsOk(rx))
          => VecRemoveInRange(workers, monI)

----------------------------------------------------------------------------
(* `hab studio` on platforms other than linux: command/studio.rs, mod inner *)

\* Strings are sequences. VERSION is a sequence of characters.
VersionChars == {"0", "1", "/"}

\* The stderr of `docker pull` is a sequence of words; the last one stands
\* for a byte sequence that is not valid UTF-8.
StderrWords == {"image", "not found", "Cannot connect to the Docker daemon",
                "error", "<invalid utf-8>"}

SeqsUpTo(S, n) == UNION {[1..k -> S] : k \in 0..n}

DOCKER_IMAGE == <<"habitat-docker-registry.bintray.io/studio">>

\* Values HAB_DOCKER_STUDIO_IMAGE may hold when it is set.
ImageEnvValues == {<<"my/studio", ":", "dev">>, DOCKER_IMAGE \o <<":", "0">>}

\* str::contains, on words
Contains(text, word) == \E j \in DOMAIN text : text[j] = word

\* String::from_utf8(..) is Ok
ValidUtf8(text) == ~Contains(text, "<invalid utf-8>")

\* str::split(sep).collect(): the pieces between the separators
RECURSIVE Split(_, _)
Split(str, sep) ==
    IF \A j \in DOMAIN str : str[j] # sep
    THEN <<str>>
    ELSE LET k == CHOOSE j \in DOMAIN str :
                     str[j] = sep /\ \A h \in 1..(j - 1) : str[h] # sep
         IN <<SubSeq(str, 1, k - 1)>> \o Split(SubSeq(str, k + 1, Len(str)), sep)

\* format!("{}:{}", a, b)
FormatImage(a, b) == a \o <<":">> \o b

\* Result::unwrap_or on henv::var: <<>> is Err, <<v>> is Ok(v)
UnwrapOr(var, default) == IF var = <<>> THEN default ELSE var[1]

ImageIdentifierFullVersion(version, imageEnv) ==
    UnwrapOr(imageEnv, FormatImage(DOCKER_IMAGE, version))
\* image_identifier()
ImageIdentifier(version, imageEnv) ==
    LET parts == Split(version, "/")
    IN UnwrapOr(imageEnv, FormatImage(DOCKER_IMAGE, parts[1]))

\* start: the error returned for a failed pull
ClassifyPullError(err_output, image) ==
    IF Contains(err_output, "image") /\ Contains(err_output, "not found")
    THEN [err |-> "DockerImageNotFound", arg |-> image]
    ELSE IF Contains(err_output, "Cannot connect to the Docker daemon")
    THEN [err |-> "DockerDaemonDown", arg |-> <<>>]
    ELSE [err |-> "DockerNetworkDown", arg |-> image]

NoResult == [err |-> "none", arg |-> <<>>]

\* `hab studio` is invoked; the supervisor is not part of that program.
StudioInit ==
    /\ worker_count = 0
    /\ cfgHeap = <<0>>
    /\ appCfg = 1
    /\ config = appCfg
    /\ workers = <<>>
    /\ inst = <<>>
    /\ callerPc = "init"
    /\ worker_id = 0
    /\ monPc = "none"
    /\ monI = 0
    /\ rx = 0
    /\ log = "none"
    /\ \E version \in SeqsUpTo(VersionChars, MaxVersionLen) :
       \E imageEnv \in {<<>>} \cup {<<v>> : v \in ImageEnvValues} :
          studio = [pc |-> "start", version |-> version, imageEnv |-> imageEnv,
                    status |-> "none", stderr |-> <<>>, image |-> <<>>,
                    result |-> NoResult, ran |-> FALSE]

supervisorVars == <<worker_count, cfgHeap, appCfg, config, workers, inst, callerPc,
                    worker_id, monPc, monI, rx, log>>

\* start: find_command(&docker)
StudioFindCommand ==
    /\ studio.pc = "start"
    /\ \E found \in BOOLEAN :
          studio' = IF found
                    THEN [studio EXCEPT !.pc = "pull"]
                    ELSE [studio EXCEPT !.pc = "returned",
                                        !.result = [err |-> "ExecCommandNotFound",
                                                    arg |-> <<"docker">>]]
    /\ UNCHANGED supervisorVars

\* start: `docker pull <image_identifier()>` is spawned and waited for
StudioPull ==
    /\ studio.pc = "pull"
    /\ LET image == ImageIdentifier(studio.version, studio.imageEnv) IN
       \/ studio' = [studio EXCEPT !.pc = "panicked", !.image = image,
                                   !.status = "spawn error"]
       \/ studio' = [studio EXCEPT !.pc = "pulled", !.image = image,
                                   !.status = "success"]
       \/ \E text \in SeqsUpTo(StderrWords, MaxStderrLen) :
             studio' = [studio EXCEPT !.pc = "pulled", !.image = image,
                                      !.status = "failure", !.stderr = text]
    /\ UNCHANGED supervisorVars

\* start: output.status is examined
StudioPullResult ==
    /\ studio.pc = "pulled"
    /\ studio' =
          IF studio.status = "success"
          THEN [studio EXCEPT !.pc = "run"]
          ELSE IF ~ValidUtf8(studio.stderr)
          THEN [studio EXCEPT !.pc = "panicked"]
          ELSE [studio EXCEPT
                   !.pc = "returned",
                   !.result = ClassifyPullError(studio.stderr,
                                 ImageIdentifier(studio.version, studio.imageEnv))]
    /\ UNCHANGED supervisorVars

\* start: `docker run ... <image_identifier()>` and exit with its status
StudioRun ==
    /\ studio.pc = "run"
    /\ studio' = [studio EXCEPT !.pc = "exited", !.ran = TRUE]
    /\ UNCHANGED supervisorVars

StudioNext ==
    \/ StudioFindCommand
    \/ StudioPull
    \/ StudioPullResult
    \/ StudioRun

StudioSpec == StudioInit /\ [][StudioNext]_vars

\* The pull has failed and start has acted on it.
PullFailureHandled ==
    /\ studio.pc \in {"returned", "panicked", "run", "exited"}
    /\ studio.status = "failure"

\* The error the three-way rule on stderr names.
PullErrorNamed ==
    LET notFound == Contains(studio.stderr, "image") /\ Contains(studio.stderr, "not found")
        daemon == Contains(studio.stderr, "Cannot connect to the Docker daemon")
    IN /\ notFound => studio.result.err = "DockerImageNotFound"
       /\ (~notFound /\ daemon) => studio.result.err = "DockerDaemonDown"
       /\ (~notFound /\ ~daemon) => studio.result.err = "DockerNetworkDown"
       /\ studio.result.err \in {"DockerImageNotFound", "DockerDaemonDown",
                                 "DockerNetworkDown"}

\* C17 (as claimed): after a failed pull, start has returned the one of the
\* three errors that the rule on stderr names, and `docker run` was not invoked.
C17_PullFailureReturnsError ==
    PullFailureHandled =>
        /\ studio.pc = "returned"
        /\ PullErrorNamed
        /\ ~studio.ran

\* `docker pull` has been given its image argument.
PullIssued == studio.pc \in {"pulled", "panicked", "returned", "run", "exited"}
                 /\ studio.status # "none"

\* p is the length of the part of VERSION before its first "/" (all of
\* VERSION when it holds no "/").
BeforeFirstSlash(version, p) ==
    /\ \A j \in 1..p : version[j] # "/"
    /\ p = Len(version) \/ version[p + 1] = "/"

====
